---- MODULE Spec2Model ----
(***************************************************************************)
(* Model of Oid4vciServer (oid4vci/v1_0/oid4vci_server.py): the lifecycle  *)
(* methods start / stop / notify_fatal_error, the four route handlers, and *)
(* the middleware chain of make_application.                               *)
(*                                                                         *)
(* The event loop is cooperative and single-threaded, so a coroutine is    *)
(* atomic between two awaits that really suspend.  start() suspends in     *)
(* `await self.site.start()`, stop() in `await self.site.stop()`; the      *)
(* handlers and the middlewares never suspend.  Nothing in the class keeps *)
(* a caller from entering start(), stop() or notify_fatal_error() while    *)
(* another start() or stop() is suspended, so lifecycle calls overlap, and *)
(* requests run at every suspension point.                                 *)
(*                                                                         *)
(* Every start() call builds an application and a site of its own and      *)
(* keeps only the latest in self.app and self.site.  A site that listens   *)
(* goes on serving its own application: a request belongs to the           *)
(* application of the site it arrived at, while the handlers, bound        *)
(* methods of the server, read self.app.                                   *)
(***************************************************************************)
EXTENDS Naturals, Sequences, FiniteSets, Bags

\* Bound on the number of Collector.reset() calls followed by the model.
MaxResets == 1

\* Bound on the number of start() and stop() coroutines suspended at once.
MaxInFlight == 2

\* Python's None.
None == "None"

VARIABLES
    app,         \* self.app: NoApp (None), or the application's _state
    site,        \* self.site: None, or the TCPSite of the latest start() call,
                 \* "created" (not listening) or "listening"
    listening,   \* the site of the latest start() call listens, whether
                 \* self.site still holds it or not
    inflight,    \* the coroutines suspended on the site of the latest start() call:
                 \*   start: 1 when that start() call awaits site.start()
                 \*   stop:  the stop() calls awaiting its site.stop()
    earlier,     \* the earlier start() calls that a coroutine still awaits the
                 \* site of, a bag; of each, whether its site listens, the ready
                 \* value of its application (written by nothing once self.app
                 \* is a newer one), and the coroutines suspended on its site
                 \* (start: 0 or 1, stop)
    open,        \* the ready values of the applications of the earlier start()
                 \* calls whose site listens with no coroutine awaiting it:
                 \* nothing closes such a site
    collector,   \* context.inject_or(Collector): NoCollector (None), or a collector
    resp,        \* observation: the outcome of the latest handler or middleware
                 \* invocation since the latest lifecycle event (NoResp if none)
    auth,        \* observation: the request of that invocation, and what
                 \* check_token did with it (NoAuth if no request was involved)
    last,        \* history: the latest lifecycle event.  A return of stop() is
                 \* "stop_done" when only stop() has run since the latest stop()
                 \* call, "stop_again" when that stop() followed such a return
                 \* and found no site, "stop_done_overlapped" when a start() or
                 \* notify_fatal_error() step has run since the latest stop() call
    stopped,     \* history: a stop() has completed on this instance with no
                 \* lifecycle coroutine left suspended
    fatal,       \* history: "open" when notify_fatal_error() was called with
                 \* self.site a listening site, and since then start() was not
                 \* called and no start() call has returned; "no" otherwise
    serving,     \* history: a start() has returned successfully, and start(), stop()
                 \* or notify_fatal_error() has not been called since
    site_started \* history: site.start() has returned since the current application
                 \* was built: "own" for the site built with it, "stale" for the
                 \* site of an earlier start() call only, "none" for neither

vars == <<app, site, listening, inflight, earlier, open, collector, resp, auth,
          last, stopped, fatal, serving, site_started>>

lifecycle == <<app, site, listening, inflight, earlier, open, last, stopped, fatal,
               serving, site_started>>

(***************************************************************************)
(* Responses and exceptions.  A handler either returns web.json_response   *)
(* (status 200, `text` the JSON body) or raises: an aiohttp HTTPException  *)
(* (its status, `text` the reason or the Location) or a Python error       *)
(* (AttributeError; no status of its own, recorded as 500).                *)
(***************************************************************************)
json_response(body) == [raised |-> None, status |-> 200, text |-> body]

HTTPServiceUnavailable(reason) ==
    [raised |-> "HTTPServiceUnavailable", status |-> 503, text |-> reason]

HTTPFound(location) == [raised |-> "HTTPFound", status |-> 302, text |-> location]

HTTPUnauthorized == [raised |-> "HTTPUnauthorized", status |-> 401, text |-> "Unauthorized"]

AttributeError == [raised |-> "AttributeError", status |-> 500, text |-> ""]

\* json.dumps of the two status bodies: the flag value read is the Python True.
dumps(key, value) == "{\"" \o key \o "\": " \o (IF value THEN "true" ELSE "false") \o "}"

(***************************************************************************)
(* make_application: the part that touches server state.  The application *)
(* it returns always starts with both status values False.                *)
(***************************************************************************)
make_application == [made |-> TRUE, ready |-> FALSE, alive |-> FALSE]

\* self.app = None, as __init__ leaves it: there is no _state to read.
NoApp == [made |-> FALSE, ready |-> FALSE, alive |-> FALSE]

\* No Collector bound in the injection context: inject_or returns None.
NoCollector == [bound |-> FALSE, resets |-> 0]

(***************************************************************************)
(* Route handlers, as functions of self.app (None before the first start). *)
(***************************************************************************)
liveliness_handler(a) ==
    IF a = NoApp THEN AttributeError
    ELSE LET app_live == a.alive
         IN  IF app_live THEN json_response(dumps("alive", app_live))
             ELSE HTTPServiceUnavailable("Service not available")

\* Mutant: readiness answered from the ready flag alone.
readiness_handler_ready_only(a) ==
    IF a = NoApp THEN AttributeError
    ELSE IF a.ready THEN json_response(dumps("ready", a.ready))
         ELSE HTTPServiceUnavailable("Service not ready")

readiness_handler(a) ==
    IF a = NoApp THEN AttributeError
    ELSE LET app_ready == a.ready /\ a.alive
         IN  IF app_ready THEN json_response(dumps("ready", app_ready))
             ELSE HTTPServiceUnavailable("Service not ready")

redirect_handler == HTTPFound("/api/doc")

\* collector.reset() when a collector is injected; the collector afterwards.
collector_after_reset(c) == IF c # NoCollector THEN [c EXCEPT !.resets = @ + 1] ELSE c

status_reset_response == json_response("{}")

\* str.startswith: s begins with the characters of prefix.
startswith(s, prefix) ==
    Len(s) >= Len(prefix) /\ SubSeq(s, 1, Len(prefix)) = prefix

(***************************************************************************)
(* is_unprotected_path: defined in make_application and used nowhere (its  *)
(* use in check_token is commented out).                                   *)
(***************************************************************************)
is_unprotected_path(path) ==
    \/ path \in {"/api/doc", "/api/docs/swagger.json", "/favicon.ico",
                 "/status/live", "/status/ready"}
    \/ startswith(path, "/static/swagger/")

(***************************************************************************)
(* check_token.  A request is its method, its path and its x-api-key       *)
(* header (None when it has none).  str.encode() is injective, and fails   *)
(* on None with an AttributeError; compare_digest is equality of the two   *)
(* byte strings.  Both arguments are evaluated (key first) before the      *)
(* method is looked at.  The result is what the middleware does: "handler" *)
(* (awaits the next handler), or the exception it raises.                  *)
(***************************************************************************)
encode(s) == <<"bytes", s>>

compare_digest(a, b) == a = b

\* Mutant: the allow-list is wired in, ahead of the key comparison.
check_token_with_allow_list(key, request) ==
    IF is_unprotected_path(request.path) THEN "handler"
    ELSE IF key = None \/ request.header = None THEN "AttributeError"
    ELSE IF compare_digest(encode(key), encode(request.header))
            \/ request.method = "OPTIONS"
         THEN "handler" ELSE "HTTPUnauthorized"

\* Lines 92-109, for the value key that line 93 gives admin_api_key.
check_token_with(key, request) ==
    LET header_admin_api_key == request.header
    IN  IF key = None THEN "AttributeError"
        ELSE IF header_admin_api_key = None THEN "AttributeError"
        ELSE LET valid_key == compare_digest(encode(key),
                                             encode(header_admin_api_key))
             IN  IF valid_key \/ request.method = "OPTIONS" THEN "handler"
                 ELSE "HTTPUnauthorized"

\* The key the middleware compares with: `admin_api_key = None`.
admin_api_key == None

check_token(request) == check_token_with(admin_api_key, request)

(***************************************************************************)
(* The requests followed: each route of the class under its method, "/"    *)
(* under HEAD as well, a preflight and the documentation page; the         *)
(* x-api-key header is missing (None) or holds a value, and /status/reset  *)
(* is followed both ways.                                                  *)
(***************************************************************************)
Requests ==
    {[method |-> "GET",     path |-> "/",              header |-> "secret"],
     [method |-> "HEAD",    path |-> "/",              header |-> None],
     [method |-> "POST",    path |-> "/status/reset",  header |-> None],
     [method |-> "POST",    path |-> "/status/reset",  header |-> "secret"],
     [method |-> "OPTIONS", path |-> "/status/reset",  header |-> None],
     [method |-> "GET",     path |-> "/status/live",   header |-> "secret"],
     [method |-> "GET",     path |-> "/status/ready",  header |-> None],
     [method |-> "GET",     path |-> "/api/doc",       header |-> "secret"]}

Paths == {r.path : r \in Requests}

(***************************************************************************)
(* The route table of the application: the handler a method and path      *)
(* resolve to.  app.add_routes registers the four handlers of the class;   *)
(* web.get registers HEAD as well only with allow_head=True ("/").         *)
(* aiohttp_cors adds an OPTIONS route to each resource that exists when    *)
(* the loop over app.router.routes() runs.  setup_aiohttp_apispec, called  *)
(* after that loop with swagger_path "/api/doc", registers GET /api/doc    *)
(* (the documentation page), GET /api/docs/swagger.json (its default url)  *)
(* and the static resource /static/swagger/ (GET and HEAD) serving the     *)
(* files of the swagger page.  A path of no resource, or a file the static *)
(* resource does not have, resolves to aiohttp's 404, a method a resource  *)
(* does not take to its 405.                                               *)
(***************************************************************************)
\* The files of aiohttp_apispec's swagger page, by their paths.
SwaggerFiles ==
    {"/static/swagger/index.html", "/static/swagger/swagger-ui.css",
     "/static/swagger/swagger-ui-bundle.js",
     "/static/swagger/swagger-ui-standalone-preset.js"}

route(method, path) ==
    IF path \in {"/", "/status/reset", "/status/live", "/status/ready"}
    THEN IF method = "OPTIONS" THEN "preflight"
         ELSE IF method \in {"GET", "HEAD"} /\ path = "/" THEN "redirect_handler"
         ELSE IF method = "POST" /\ path = "/status/reset" THEN "status_reset_handler"
         ELSE IF method = "GET" /\ path = "/status/live" THEN "liveliness_handler"
         ELSE IF method = "GET" /\ path = "/status/ready" THEN "readiness_handler"
         ELSE "method_not_allowed"
    ELSE IF path = "/api/doc"
    THEN IF method = "GET" THEN "swagger_view" ELSE "method_not_allowed"
    ELSE IF path = "/api/docs/swagger.json"
    THEN IF method = "GET" THEN "swagger_handler" ELSE "method_not_allowed"
    ELSE IF startswith(path, "/static/swagger/")
    THEN IF method \notin {"GET", "HEAD"} THEN "method_not_allowed"
         ELSE IF path \in SwaggerFiles THEN "static"
         ELSE "not_found"
    ELSE "not_found"

\* What the resolved handler answers, given self.app.
route_response(h, a) ==
    CASE h = "redirect_handler"     -> redirect_handler
      [] h = "status_reset_handler" -> status_reset_response
      [] h = "liveliness_handler"   -> liveliness_handler(a)
      [] h = "readiness_handler"    -> readiness_handler(a)
      [] h = "preflight"            -> [raised |-> None, status |-> 200, text |-> ""]
      [] h = "swagger_view"         -> [raised |-> None, status |-> 200,
                                        text |-> "index.html"]
      [] h = "swagger_handler"      -> [raised |-> None, status |-> 200,
                                        text |-> "swagger_dict"]
      [] h = "static"               -> [raised |-> None, status |-> 200,
                                        text |-> "file"]
      [] h = "not_found"            -> [raised |-> "HTTPNotFound", status |-> 404,
                                        text |-> "Not Found"]
      [] OTHER -> [raised |-> "HTTPMethodNotAllowed", status |-> 405,
                   text |-> "Method Not Allowed"]

(***************************************************************************)
(* State.                                                                  *)
(***************************************************************************)
NoAuth == [method |-> None, path |-> None, header |-> None,
           outcome |-> None, context |-> FALSE]

NoResp == [handler |-> None, raised |-> None, status |-> 0, text |-> ""]

\* A lifecycle event starts a new observation period.
new_period == resp' = NoResp /\ auth' = NoAuth

\* The coroutines suspended on the sites of the start() calls es.
RECURSIVE Pending(_)
Pending(es) ==
    IF es = EmptyBag THEN 0
    ELSE LET e == CHOOSE x \in BagToSet(es) : TRUE
         IN  e.start + e.stop + Pending(es (-) SetToBag({e}))

\* The number of suspended lifecycle coroutines.
InFlight == inflight.start + inflight.stop + Pending(earlier)

\* The latest start() call, as start() leaves it when it is called again.
superseded ==
    [listening |-> listening, ready |-> app.ready,
     start |-> inflight.start, stop |-> inflight.stop]

\* The earlier calls es and the call e: e is kept while a coroutine awaits
\* its site.
awaited(es, e) ==
    IF e.start + e.stop > 0 THEN es (+) SetToBag({e}) ELSE es

\* The sites left open o and the call e: the site of e is left open when it
\* listens and no coroutine awaits it.
left_open(o, e) ==
    IF e.start + e.stop = 0 /\ e.listening THEN o \cup {e.ready} ELSE o

Init ==
    /\ app = NoApp
    /\ site = None
    /\ listening = FALSE
    /\ inflight = [start |-> 0, stop |-> 0]
    /\ earlier = EmptyBag
    /\ open = {}
    /\ collector \in {NoCollector, [bound |-> TRUE, resets |-> 0]}
    /\ resp = NoResp
    /\ auth = NoAuth
    /\ last = "init"
    /\ stopped = FALSE
    /\ fatal = "no"
    /\ serving = FALSE
    /\ site_started = "none"

\* The record kept of an invocation of handler h that answered r.
observed(h, r) ==
    [handler |-> h, raised |-> r.raised, status |-> r.status, text |-> r.text]

\* Mutant: start() sets the flags as soon as the application is built.
start_begin_flags_early ==
    /\ new_period
    /\ last' = "start_called"
    /\ InFlight < MaxInFlight
    /\ app' = [made |-> TRUE, ready |-> TRUE, alive |-> TRUE]
    /\ site' = "created"
    /\ listening' = FALSE
    /\ inflight' = [start |-> 1, stop |-> 0]
    /\ earlier' = IF app = NoApp THEN earlier ELSE awaited(earlier, superseded)
    /\ open' = IF app = NoApp THEN open ELSE left_open(open, superseded)
    /\ fatal' = "no"
    /\ serving' = FALSE
    /\ site_started' = "none"
    /\ UNCHANGED <<collector, stopped>>

(***************************************************************************)
(* start().  Up to the bind: build the application (both flags False) and  *)
(* assign it to self.app, set up the runner, build the TCPSite and assign  *)
(* it to self.site, await its start().  The call before it, if any, stays  *)
(* as it is: its coroutines keep awaiting the site it built, and that site *)
(* serves its application for as long as it listens.                       *)
(***************************************************************************)
start_begin ==
    /\ new_period
    /\ last' = "start_called"
    /\ InFlight < MaxInFlight
    /\ app' = make_application
    /\ site' = "created"
    /\ listening' = FALSE
    /\ inflight' = [start |-> 1, stop |-> 0]
    /\ earlier' = IF app = NoApp THEN earlier ELSE awaited(earlier, superseded)
    /\ open' = IF app = NoApp THEN open ELSE left_open(open, superseded)
    /\ fatal' = "no"
    /\ serving' = FALSE
    /\ site_started' = "none"
    /\ UNCHANGED <<collector, stopped>>

\* Mutant: a successful bind sets ready and forgets alive.
start_site_ok_ready_only ==
    /\ new_period
    /\ last' = "start_ok"
    /\ inflight.start = 1
    /\ site' = IF site = None THEN None ELSE "listening"
    /\ listening' = TRUE
    /\ app' = [app EXCEPT !.ready = TRUE]
    /\ inflight' = [inflight EXCEPT !.start = 0]
    /\ serving' = TRUE
    /\ site_started' = "own"
    /\ fatal' = "no"
    /\ UNCHANGED <<earlier, open, collector, stopped>>

(***************************************************************************)
(* The latest start() call resumes, site.start() having returned: its      *)
(* socket listens; ready, then alive, are set through self.app.  self.site *)
(* is that site, or None if a stop() has completed in between.             *)
(***************************************************************************)
start_site_ok ==
    /\ new_period
    /\ last' = "start_ok"
    /\ inflight.start = 1
    /\ site' = IF site = None THEN None ELSE "listening"
    /\ listening' = TRUE
    /\ app' = [[app EXCEPT !.ready = TRUE] EXCEPT !.alive = TRUE]
    /\ inflight' = [inflight EXCEPT !.start = 0]
    /\ serving' = TRUE
    /\ site_started' = "own"
    /\ fatal' = "no"
    /\ UNCHANGED <<earlier, open, collector, stopped>>

(***************************************************************************)
(* An earlier start() call resumes, the start() of the site it built       *)
(* having returned: it sets ready, then alive, through self.app, which by  *)
(* now is the application of the latest start() call.  Its own site        *)
(* listens from here on; self.site, the latest call's site or None, is not *)
(* touched.                                                                *)
(***************************************************************************)
start_stale_ok ==
    /\ new_period
    /\ last' = "start_ok"
    /\ \E e \in BagToSet(earlier) :
           LET now == [[e EXCEPT !.start = 0] EXCEPT !.listening = TRUE]
           IN  /\ e.start = 1
               /\ earlier' = awaited(earlier (-) SetToBag({e}), now)
               /\ open' = left_open(open, now)
               /\ app' = [[app EXCEPT !.ready = TRUE] EXCEPT !.alive = TRUE]
               /\ serving' = TRUE
               /\ site_started' = IF site_started = "none" THEN "stale" ELSE site_started
               /\ fatal' = "no"
               /\ UNCHANGED <<site, listening, inflight, collector, stopped>>

\* Mutant: the flags are set before the bind is known to have succeeded.
start_site_oserror_flags_set ==
    /\ new_period
    /\ last' = "start_AdminSetupError"
    /\ inflight.start = 1
    /\ app' = [[app EXCEPT !.ready = TRUE] EXCEPT !.alive = TRUE]
    /\ inflight' = [inflight EXCEPT !.start = 0]
    /\ UNCHANGED <<site, listening, earlier, open, collector, stopped, fatal, serving,
                   site_started>>

\* The latest start() call resumes, site.start() having raised OSError:
\* start() raises AdminSetupError.
start_site_oserror ==
    /\ new_period
    /\ last' = "start_AdminSetupError"
    /\ inflight.start = 1
    /\ inflight' = [inflight EXCEPT !.start = 0]
    /\ UNCHANGED <<app, site, listening, earlier, open, collector, stopped, fatal,
                   serving, site_started>>

\* An earlier start() call resumes the same way: it raises AdminSetupError.
start_stale_oserror ==
    /\ new_period
    /\ last' = "start_AdminSetupError"
    /\ \E e \in BagToSet(earlier) :
           LET now == [e EXCEPT !.start = 0]
           IN  /\ e.start = 1
               /\ earlier' = awaited(earlier (-) SetToBag({e}), now)
               /\ open' = left_open(open, now)
               /\ UNCHANGED <<app, site, listening, inflight, collector, stopped, fatal,
                              serving, site_started>>

\* Mutant: stop() closes the site and forgets to clear ready.
stop_begin_ready_left ==
    /\ new_period
    /\ (app # NoApp /\ site # None) => InFlight < MaxInFlight
    /\ IF app = NoApp
       THEN /\ last' = "stop_AttributeError"
            /\ UNCHANGED <<app, inflight, stopped, serving>>
       ELSE /\ app' = app
            /\ serving' = FALSE
            /\ IF site # None
               THEN /\ inflight' = [inflight EXCEPT !.stop = @ + 1]
                    /\ last' = "stop_called"
                    /\ UNCHANGED stopped
               ELSE /\ last' = IF last \in {"stop_done", "stop_again"}
                               THEN "stop_again" ELSE "stop_done"
                    /\ stopped' = (stopped \/ InFlight = 0)
                    /\ UNCHANGED inflight
    /\ UNCHANGED <<site, listening, earlier, open, collector, fatal, site_started>>

\* Mutant: stop() without the `if self.site` guard: None has no stop().
stop_begin_site_unguarded ==
    /\ new_period
    /\ (app # NoApp /\ site # None) => InFlight < MaxInFlight
    /\ IF app = NoApp
       THEN /\ last' = "stop_AttributeError"
            /\ UNCHANGED <<app, inflight, stopped, serving>>
       ELSE /\ app' = [app EXCEPT !.ready = FALSE]
            /\ serving' = FALSE
            /\ IF site # None
               THEN /\ inflight' = [inflight EXCEPT !.stop = @ + 1]
                    /\ last' = "stop_called"
                    /\ UNCHANGED stopped
               ELSE /\ last' = "stop_AttributeError"
                    /\ stopped' = (stopped \/ InFlight = 0)
                    /\ UNCHANGED inflight
    /\ UNCHANGED <<site, listening, earlier, open, collector, fatal, site_started>>

(***************************************************************************)
(* stop().  ready is cleared first, through self.app; with a site in       *)
(* self.site, stop() then awaits that site's stop(), and otherwise it      *)
(* returns.  With self.app still None the first line raises.               *)
(***************************************************************************)
stop_begin ==
    /\ new_period
    /\ (app # NoApp /\ site # None) => InFlight < MaxInFlight
    /\ IF app = NoApp
       THEN /\ last' = "stop_AttributeError"
            /\ UNCHANGED <<app, inflight, stopped, serving>>
       ELSE /\ app' = [app EXCEPT !.ready = FALSE]
            /\ serving' = FALSE
            /\ IF site # None
               THEN /\ inflight' = [inflight EXCEPT !.stop = @ + 1]
                    /\ last' = "stop_called"
                    /\ UNCHANGED stopped
               ELSE /\ last' = IF last \in {"stop_done", "stop_again"}
                               THEN "stop_again" ELSE "stop_done"
                    /\ stopped' = (stopped \/ InFlight = 0)
                    /\ UNCHANGED inflight
    /\ UNCHANGED <<site, listening, earlier, open, collector, fatal, site_started>>

(***************************************************************************)
(* A stop() call resumes, site.stop() having returned: the site it awaited *)
(* is closed, and self.site = None, whatever self.site holds by now.  The  *)
(* site is that of the latest start() call (stop_site_done), or that of an *)
(* earlier one when start() was called while the stop() was suspended      *)
(* (stop_stale_done): self.site, the latest call's site, is then dropped   *)
(* with that site left as it is.                                           *)
(***************************************************************************)
stop_site_done ==
    /\ new_period
    /\ inflight.stop > 0
    /\ site' = None
    /\ listening' = FALSE
    /\ inflight' = [inflight EXCEPT !.stop = @ - 1]
    /\ last' = IF last \in {"stop_called", "stop_done", "stop_again"}
               THEN "stop_done" ELSE "stop_done_overlapped"
    /\ stopped' = (stopped \/ InFlight = 1)
    /\ UNCHANGED <<app, earlier, open, collector, fatal, serving, site_started>>

stop_stale_done ==
    /\ new_period
    /\ \E e \in BagToSet(earlier) :
           LET now == [[e EXCEPT !.stop = @ - 1] EXCEPT !.listening = FALSE]
           IN  /\ e.stop > 0
               /\ earlier' = awaited(earlier (-) SetToBag({e}), now)
               /\ site' = None
               /\ last' = IF last \in {"stop_called", "stop_done", "stop_again"}
                          THEN "stop_done" ELSE "stop_done_overlapped"
               /\ stopped' = (stopped \/ InFlight = 1)
               /\ UNCHANGED <<app, listening, inflight, open, collector, fatal, serving,
                              site_started>>

\* Mutant: notify_fatal_error() clears ready and forgets alive.
notify_fatal_error_ready_only ==
    /\ new_period
    /\ IF app = NoApp
       THEN /\ last' = "fatal_AttributeError"
            /\ UNCHANGED <<app, fatal, serving>>
       ELSE /\ app' = [app EXCEPT !.ready = FALSE]
            /\ last' = "fatal"
            /\ serving' = FALSE
            /\ fatal' = IF site = "listening" THEN "open" ELSE fatal
    /\ UNCHANGED <<site, listening, inflight, earlier, open, collector, stopped,
                   site_started>>

(***************************************************************************)
(* notify_fatal_error(): synchronous, callable at any suspension point.    *)
(***************************************************************************)
notify_fatal_error ==
    /\ new_period
    /\ IF app = NoApp
       THEN /\ last' = "fatal_AttributeError"
            /\ UNCHANGED <<app, fatal, serving>>
       ELSE /\ app' = [[app EXCEPT !.ready = FALSE] EXCEPT !.alive = FALSE]
            /\ last' = "fatal"
            /\ serving' = FALSE
            /\ fatal' = IF site = "listening" THEN "open" ELSE fatal
    /\ UNCHANGED <<site, listening, inflight, earlier, open, collector, stopped,
                   site_started>>

(***************************************************************************)
(* The route handlers, invoked on their own.                               *)
(***************************************************************************)
liveliness_call ==
    /\ UNCHANGED <<lifecycle, collector>>
    /\ resp' = observed("liveliness_handler", liveliness_handler(app))
    /\ auth' = NoAuth

readiness_call ==
    /\ UNCHANGED <<lifecycle, collector>>
    /\ resp' = observed("readiness_handler", readiness_handler(app))
    /\ auth' = NoAuth

redirect_call ==
    /\ UNCHANGED <<lifecycle, collector>>
    /\ resp' = observed("redirect_handler", redirect_handler)
    /\ auth' = NoAuth

\* Mutant: the reset handler also clears the ready flag.
status_reset_call_clears_ready ==
    /\ collector.resets < MaxResets
    /\ collector' = collector_after_reset(collector)
    /\ resp' = observed("status_reset_handler", status_reset_response)
    /\ auth' = NoAuth
    /\ app' = IF app = NoApp THEN app ELSE [app EXCEPT !.ready = FALSE]
    /\ UNCHANGED <<site, listening, inflight, earlier, open, last, stopped, fatal, serving,
                   site_started>>

\* Mutant: the handler calls reset() without the `if collector` guard.
status_reset_call_unguarded ==
    /\ UNCHANGED lifecycle
    /\ collector.resets < MaxResets
    /\ collector' = collector_after_reset(collector)
    /\ resp' = observed("status_reset_handler",
                        IF collector = NoCollector THEN AttributeError
                        ELSE status_reset_response)
    /\ auth' = NoAuth

status_reset_call ==
    /\ UNCHANGED lifecycle
    /\ collector.resets < MaxResets
    /\ collector' = collector_after_reset(collector)
    /\ resp' = observed("status_reset_handler", status_reset_response)
    /\ auth' = NoAuth

(***************************************************************************)
(* The middlewares of the application, in the order of the list: aiohttp   *)
(* runs the first of the list outermost.  A middleware either awaits the   *)
(* next handler or raises.  The first three are imported:                  *)
(*   ready_middleware (aries_cloudagent.admin.server) goes on when the     *)
(*     request's path, less trailing slashes, is /status/live or           *)
(*     /status/ready, or when the application's ready value is set, and    *)
(*     raises HTTPServiceUnavailable "Shutdown in progress" otherwise;     *)
(*   debug_middleware (same module) logs the request and goes on;          *)
(*   validation_middleware (aiohttp_apispec) goes on for a handler that    *)
(*     declares no request schema, as all handlers here.                   *)
(* check_token goes on or raises, as above; setup_context attaches the     *)
(* admin context to the request and always goes on.  A request belongs to  *)
(* the application of the site it arrived at (request.app), which is what  *)
(* ready_middleware reads; the handlers, methods of the server, read       *)
(* self.app.                                                               *)
(***************************************************************************)
\* str.rstrip(c): s less its trailing occurrences of the character c.
RECURSIVE rstrip(_, _)
rstrip(s, c) ==
    IF Len(s) > 0 /\ SubSeq(s, Len(s), Len(s)) = c
    THEN rstrip(SubSeq(s, 1, Len(s) - 1), c)
    ELSE s

\* ready_middleware: TRUE when it awaits the next handler.
ready_middleware(path, a) ==
    \/ rstrip(path, "/") \in {"/status/live", "/status/ready"}
    \/ a.ready

\* Mutant: setup_context appended before check_token.
middlewares_context_first ==
    <<"ready_middleware", "debug_middleware", "validation_middleware",
      "setup_context", "check_token">>

middlewares ==
    <<"ready_middleware", "debug_middleware", "validation_middleware",
      "check_token", "setup_context">>

\* A request before any middleware has run.
NoRun == [reached |-> FALSE, by |-> None, outcome |-> None, context |-> FALSE]

(***************************************************************************)
(* The chain ms on a request of application a, check_token comparing with  *)
(* key: whether the route's handler is reached, the middleware that raised *)
(* instead (by), what check_token did if it was entered (outcome), and     *)
(* whether a context was attached.                                         *)
(***************************************************************************)
RECURSIVE run_middlewares(_, _, _, _, _)
run_middlewares(ms, key, request, a, run) ==
    IF ms = <<>> THEN [run EXCEPT !.reached = TRUE]
    ELSE IF Head(ms) = "ready_middleware"
         THEN IF ready_middleware(request.path, a)
              THEN run_middlewares(Tail(ms), key, request, a, run)
              ELSE [run EXCEPT !.by = "ready_middleware"]
    ELSE IF Head(ms) = "check_token"
         THEN LET outcome == check_token_with(key, request)
              IN  IF outcome = "handler"
                  THEN run_middlewares(Tail(ms), key, request, a,
                                       [run EXCEPT !.outcome = outcome])
                  ELSE [run EXCEPT !.by = "check_token", !.outcome = outcome]
    ELSE IF Head(ms) = "setup_context"
         THEN run_middlewares(Tail(ms), key, request, a,
                              [run EXCEPT !.context = TRUE])
    ELSE run_middlewares(Tail(ms), key, request, a, run)

(***************************************************************************)
(* The applications a request can arrive at: those whose site listens, the *)
(* one of the latest start() call and those of the earlier ones.  Of a     *)
(* request's application only the ready value is read.                     *)
(***************************************************************************)
ListeningApps ==
    {[ready |-> r] :
        r \in (IF listening THEN {app.ready} ELSE {})
              \cup open
              \cup {e.ready : e \in {x \in BagToSet(earlier) : x.listening}}}

(***************************************************************************)
(* A request r arriving at the site of application a.  It goes through the *)
(* middlewares (run: what the chain does with it); when all let it         *)
(* through, the handler h its method and path resolve to runs on self.app. *)
(***************************************************************************)
check_token_request(r, a) ==
    \E run \in {run_middlewares(middlewares, admin_api_key, r, a, NoRun)},
       h \in {route(r.method, r.path)} :
        /\ h = "status_reset_handler" /\ run.reached
             => collector.resets < MaxResets
        /\ auth' = [method |-> r.method, path |-> r.path, header |-> r.header,
                    outcome |-> run.outcome, context |-> run.context]
        /\ IF run.reached
           THEN /\ resp' = observed(h, route_response(h, app))
                /\ collector' = IF h = "status_reset_handler"
                                THEN collector_after_reset(collector)
                                ELSE collector
           ELSE /\ resp' = observed(run.by,
                                    IF run.by = "ready_middleware"
                                    THEN HTTPServiceUnavailable("Shutdown in progress")
                                    ELSE IF run.outcome = "HTTPUnauthorized"
                                    THEN HTTPUnauthorized ELSE AttributeError)
                /\ UNCHANGED collector

request ==
    /\ UNCHANGED lifecycle
    /\ \E r \in Requests, a \in ListeningApps : check_token_request(r, a)

Next ==
    \/ start_begin
    \/ start_site_ok
    \/ start_stale_ok
    \/ start_site_oserror
    \/ start_stale_oserror
    \/ stop_begin
    \/ stop_site_done
    \/ stop_stale_done
    \/ notify_fatal_error
    \/ liveliness_call
    \/ readiness_call
    \/ redirect_call
    \/ status_reset_call
    \/ request

Spec == Init /\ [][Next]_vars

(***************************************************************************)
(* The handlers on every pair of flag values: the same server, entered     *)
(* with an application whose two status values are arbitrary.              *)
(***************************************************************************)
InitFlags ==
    /\ app \in [made : {TRUE}, ready : BOOLEAN, alive : BOOLEAN]
    /\ site = "listening"
    /\ listening = TRUE
    /\ inflight = [start |-> 0, stop |-> 0]
    /\ earlier = EmptyBag
    /\ open = {}
    /\ collector \in {NoCollector, [bound |-> TRUE, resets |-> 0]}
    /\ resp = NoResp
    /\ auth = NoAuth
    /\ last = "init"
    /\ stopped = FALSE
    /\ fatal = "no"
    /\ serving = FALSE
    /\ site_started = "own"

SpecFlags == InitFlags /\ [][Next]_vars

(***************************************************************************)
(* Properties.                                                             *)
(***************************************************************************)
Alive200 == json_response("{\"alive\": true}")

Ready200 == json_response("{\"ready\": true}")

NotAvailable503 == HTTPServiceUnavailable("Service not available")

NotReady503 == HTTPServiceUnavailable("Service not ready")

\* The response part of the observation.
answer == [raised |-> resp.raised, status |-> resp.status, text |-> resp.text]

\* A step in which alive or ready goes from false to true.
FlagRises == (app'.alive /\ ~app.alive) \/ (app'.ready /\ ~app.ready)

\* C1 as stated: after a start() has returned successfully, alive and ready
\* are true and both handlers answer 200 for as long as stop() and
\* notify_fatal_error() are not called: from a state a successful start() has
\* left, no step but a call of stop() or notify_fatal_error() ends that.
C1_StartedUntilStopOrFatal ==
    [][(serving /\ ~stop_begin /\ ~notify_fatal_error) =>
           /\ app'.alive /\ app'.ready
           /\ liveliness_handler(app') = Alive200
           /\ readiness_handler(app') = Ready200]_vars

\* C1 amended: after a start() has returned successfully, and for as long as
\* stop(), notify_fatal_error() or a further start() has not been called
\* since, alive and ready are both true, the liveliness handler answers 200
\* {"alive": true} and the readiness handler answers 200 {"ready": true}.
C1_StartedAnswers200 ==
    serving =>
        /\ app.alive /\ app.ready
        /\ liveliness_handler(app) = Alive200
        /\ readiness_handler(app) = Ready200
        /\ resp.handler = "liveliness_handler" => answer = Alive200
        /\ resp.handler = "readiness_handler" => answer = Ready200

C1_Witness ==
    /\ serving
    /\ last = "start_ok"
    /\ resp.handler = "readiness_handler"
    /\ resp.status = 200

\* C2 as stated: after notify_fatal_error() on a started server (self.site
\* a listening site) alive and ready are false and both handlers answer 503
\* until a new start: from a state such a notify_fatal_error() has left, no
\* step but a call of start() ends that.
C2_FatalUntilNewStart ==
    [][(fatal = "open" /\ ~start_begin) =>
           /\ ~app'.alive /\ ~app'.ready
           /\ liveliness_handler(app') = NotAvailable503
           /\ readiness_handler(app') = NotReady503]_vars

\* C2 amended: notify_fatal_error() on a started server (self.site a
\* listening site) sets alive and ready to false and leaves self.site and
\* every site as it is, listening; from then on every liveliness or readiness
\* invocation answers 503, until start() is called again or a start() call
\* that was suspended when notify_fatal_error() was called returns
\* successfully.
C2_FatalAnswers503 ==
    /\ [](fatal = "open" =>
              /\ app # NoApp /\ ~app.alive /\ ~app.ready
              /\ liveliness_handler(app) = NotAvailable503
              /\ readiness_handler(app) = NotReady503
              /\ resp.handler = "liveliness_handler" => answer = NotAvailable503
              /\ resp.handler = "readiness_handler" => answer = NotReady503)
    /\ [][(notify_fatal_error /\ site = "listening") =>
              /\ fatal' = "open"
              /\ site' = site /\ listening' = listening
              /\ inflight' = inflight /\ earlier' = earlier /\ open' = open]_vars

C2_Witness ==
    /\ fatal = "open"
    /\ last = "fatal"
    /\ site = "listening"
    /\ listening
    /\ resp.handler = "liveliness_handler"
    /\ resp.status = 503

\* C3 as stated: after stop() completes on a started server, with only
\* stop() run since it was called, both flags are false and both handlers
\* would answer 503.
C3_StopClearsBothFlags ==
    last = "stop_done" =>
        /\ ~app.alive /\ ~app.ready
        /\ liveliness_handler(app) = NotAvailable503
        /\ readiness_handler(app) = NotReady503

\* C4: whatever the two flags hold, the readiness handler answers 200
\* {"ready": true} when alive and ready are both true and 503 "Service not
\* ready" otherwise; the liveliness handler answers 200 {"alive": true} when
\* alive is true, whatever ready holds, and 503 "Service not available"
\* otherwise.
C4_HandlerTables ==
    app # NoApp =>
        /\ resp.handler = "readiness_handler" =>
               answer = IF app.alive /\ app.ready THEN Ready200 ELSE NotReady503
        /\ resp.handler = "liveliness_handler" =>
               answer = IF app.alive THEN Alive200 ELSE NotAvailable503

C4_Witness ==
    /\ app.ready /\ ~app.alive
    /\ resp.handler = "readiness_handler"
    /\ resp.status = 503

\* C5 as stated: a request that is not OPTIONS and enters check_token is failed
\* with 401 when its x-api-key header is missing or differs from the admin
\* key, and is passed on to the next handler when the header equals the key.
C5_UnauthorizedIffKeyMismatch ==
    (auth.outcome # None /\ auth.method # "OPTIONS") =>
        IF auth.header # None /\ auth.header = admin_api_key
        THEN auth.outcome = "handler"
        ELSE auth.outcome = "HTTPUnauthorized"

\* C6 as stated: an OPTIONS request that enters check_token is always passed
\* on to the next handler, whatever its headers.
C6_OptionsAlwaysPasses ==
    (auth.outcome # None /\ auth.method = "OPTIONS") => auth.outcome = "handler"

\* C7 as stated: when the bind fails, start() raises AdminSetupError and
\* neither flag is true: both are as make_application left them.
C7_FailedStartFlagsFalse ==
    last = "start_AdminSetupError" =>
        /\ app = make_application
        /\ ~app.alive /\ ~app.ready

\* C7 amended: when the bind fails, start() raises AdminSetupError and writes
\* neither flag nor self.site: alive and ready are what they were when
\* site.start() raised.  They are both false, as make_application left them,
\* unless the site.start() of another start() call on the instance has
\* returned since the application was built.
C7_FailedStartWritesNoFlag ==
    /\ []((last = "start_AdminSetupError" /\ site_started = "none") =>
              app = make_application)
    /\ [][(start_site_oserror \/ start_stale_oserror) =>
              /\ app' = app
              /\ site' = site
              /\ last' = "start_AdminSetupError"]_vars

C7_Witness ==
    /\ last = "start_AdminSetupError"
    /\ site_started = "none"
    /\ site = "created"
    /\ ~app.alive /\ ~app.ready
    /\ stopped

\* C8: a stop() that follows a completed stop(), with only stop() run in
\* between, raises nothing, does not enter the site's stop (self.site is None)
\* and leaves app and site as they were.
C8_SecondStopNoOp ==
    [][(last \in {"stop_done", "stop_again"} /\ stop_begin) =>
           /\ site = None
           /\ last' = "stop_again"
           /\ inflight' = inflight
           /\ app' = app
           /\ site' = site]_vars

C8_Witness ==
    /\ last = "stop_again"
    /\ site = None
    /\ app.alive /\ ~app.ready
    /\ site_started = "own"

\* C9: the reset handler answers 200 {} in every case; a bound collector is
\* reset exactly once, without one nothing is reset; app and site are left
\* as they were.
C9_ResetAnswers200 ==
    [][status_reset_call =>
           /\ resp'.status = 200 /\ resp'.text = "{}" /\ resp'.raised = None
           /\ collector.bound => collector'.resets = collector.resets + 1
           /\ ~collector.bound => collector' = NoCollector
           /\ app' = app
           /\ site' = site]_vars

C9_Witness ==
    /\ resp.handler = "status_reset_handler"
    /\ resp.status = 200
    /\ auth = NoAuth
    /\ ~collector.bound
    /\ app.alive

\* C10 as stated: once a stop() has completed, no later call makes alive or
\* ready go from false to true.
C10_NoRestart ==
    [][stopped => ~FlagRises]_vars

\* C10 amended: in no state, and so not once stop() has been called, do
\* stop() and notify_fatal_error() make alive or ready true; only a start()
\* whose bind succeeds does, and it then sets both: the instance restarts.
C10_OnlyStartRestarts ==
    [][FlagRises =>
           /\ start_site_ok \/ start_stale_ok
           /\ last' = "start_ok"
           /\ app'.alive /\ app'.ready]_vars

C10_Witness ==
    /\ stopped
    /\ last = "start_ok"
    /\ site = "listening"
    /\ app.alive /\ app.ready

\* A stop() call awaits site.stop().
StopPending ==
    inflight.stop > 0 \/ \E e \in BagToSet(earlier) : e.stop > 0

\* C11 as stated: stop() clears ready before the site is closed: while
\* site.stop() is pending ready is already false and a readiness invocation
\* answers 503, and in no state is self.site closed (None) with ready still
\* true.
C11_ReadyClearedBeforeClose ==
    /\ StopPending =>
           /\ ~app.ready
           /\ readiness_handler(app) = NotReady503
           /\ resp.handler = "readiness_handler" => answer = NotReady503
    /\ site = None => ~app.ready

\* C11 amended: stop() clears ready before it begins to close the site: while
\* site.stop() is pending, and once self.site is None, ready is false and a
\* readiness invocation answers 503, unless a start() has returned
\* successfully since the latest stop() call; ready is then true again.
C11_ReadyFalseUnlessStarted ==
    (StopPending \/ site = None) =>
        /\ app.ready => serving
        /\ (~serving /\ app # NoApp) =>
               /\ readiness_handler(app) = NotReady503
               /\ resp.handler = "readiness_handler" => answer = NotReady503

C11_Witness ==
    /\ inflight.stop > 0
    /\ site = "listening"
    /\ app.alive
    /\ resp.handler = "readiness_handler"
    /\ resp.status = 503

\* C12 as stated: alive or ready is true only when site.start() has returned
\* without error for the site of the current application.
C12_FlagsOnlyAfterSiteStart ==
    (app.alive \/ app.ready) => site_started = "own"

\* C12 amended: alive or ready is true only when a site.start() awaited by a
\* start() call has returned without error since the current application was
\* built: both are false from the moment the application is built until then.
\* The site is the current application's own or that of an earlier start()
\* call.
C12_FlagsOnlyAfterSomeSiteStart ==
    (app.alive \/ app.ready) => site_started # "none"

C12_Witness ==
    /\ app.alive /\ app.ready
    /\ site_started = "own"
    /\ last = "start_ok"
    /\ stopped

\* C13: in every state a handler can run in (each suspension point of start
\* and stop, and after each lifecycle call has returned) ready implies alive.
C13_ReadyImpliesAlive ==
    app.ready => app.alive

C13_Witness ==
    /\ inflight.stop > 0
    /\ app.alive /\ ~app.ready
    /\ resp.handler = "liveliness_handler"
    /\ resp.status = 200

\* The keys check_token is followed with: None, the admin_api_key of line 93,
\* and keys that are set.
Keys == {None, "secret", "other"}

\* The paths is_unprotected_path answers True for: the five of its list and,
\* under the prefix /static/swagger/, a file of the swagger page and another.
AllowListed ==
    {"/api/doc", "/api/docs/swagger.json", "/favicon.ico", "/status/live",
     "/status/ready", "/static/swagger/swagger-ui.css", "/static/swagger/other.js"}

\* Requests of every method, with every path followed or allow-listed and
\* with the x-api-key header missing, equal to a key or different from it.
AnyRequests ==
    [method : {"GET", "HEAD", "POST", "OPTIONS"},
     path : Paths \cup AllowListed,
     header : {None, "secret", "wrong"}]

\* The chain on each of these requests, whatever key check_token compares
\* with and whether the application is ready or not: a context is attached,
\* and the route's handler reached, only when check_token went on to the next
\* handler, and a request check_token raises on gets neither.
ChainOrder ==
    \A key \in Keys, r \in AnyRequests, ready \in BOOLEAN :
        LET run == run_middlewares(middlewares, key, r, [ready |-> ready], NoRun)
        IN  /\ run.context => run.outcome = "handler"
            /\ run.reached => run.outcome = "handler" /\ run.context
            /\ run.outcome \notin {None, "handler"} =>
                   ~run.context /\ ~run.reached /\ run.by = "check_token"

\* C14: check_token runs before setup_context: a request has a context
\* attached, or reaches a route handler, only when check_token let it
\* through, and a request check_token fails gets no context and no handler.
\* This holds of every request a listening site is sent and, check_token
\* failing each of those on the key None, of the chain with any key.
C14_AuthBeforeContext ==
    auth.method # None =>
        /\ auth.context => auth.outcome = "handler"
        /\ resp.handler \notin {"ready_middleware", "check_token"}
               => auth.outcome = "handler"
        /\ auth.outcome \notin {None, "handler"}
               => ~auth.context /\ resp.handler = "check_token"
        /\ ChainOrder

\* A request that check_token has failed, with no context and no handler;
\* with its own header for key the chain lets the same request through to
\* setup_context and the handler, and with another key it ends in 401.
C14_Witness ==
    /\ auth.method = "POST"
    /\ auth.path = "/status/reset"
    /\ auth.header = "secret"
    /\ auth.outcome = "AttributeError"
    /\ ~auth.context
    /\ resp.handler = "check_token"
    /\ LET r == [method |-> auth.method, path |-> auth.path, header |-> auth.header]
           through == run_middlewares(middlewares, auth.header, r,
                                      [ready |-> app.ready], NoRun)
           refused == run_middlewares(middlewares, "other", r,
                                      [ready |-> app.ready], NoRun)
       IN  /\ through.outcome = "handler" /\ through.context /\ through.reached
           /\ refused.outcome = "HTTPUnauthorized"
           /\ ~refused.context /\ ~refused.reached

\* check_token on two requests of the same method and x-api-key header,
\* whatever their paths and whatever key it compares with.
PathBlind ==
    \A key \in Keys, r1 \in AnyRequests, r2 \in AnyRequests :
        (r1.method = r2.method /\ r1.header = r2.header) =>
            check_token_with(key, r1) = check_token_with(key, r2)

\* C15: what check_token does with a request depends on its method and its
\* x-api-key header only: a request of the same method and header to any
\* other path, allow-listed or not, has the outcome the request seen by
\* check_token had, and so it is with any key.
C15_OutcomeIgnoresPath ==
    auth.outcome # None =>
        /\ \A p \in Paths \cup AllowListed :
               check_token([method |-> auth.method, path |-> p,
                            header |-> auth.header]) = auth.outcome
        /\ PathBlind

\* A request to an allow-listed path that check_token has dealt with as it
\* deals with the same method and header on a path that is not allow-listed;
\* so it does with a key that is set, where the outcome is 401.
C15_Witness ==
    /\ auth.method = "GET"
    /\ auth.path = "/status/live"
    /\ auth.header = "secret"
    /\ is_unprotected_path(auth.path)
    /\ ~is_unprotected_path("/status/reset")
    /\ auth.outcome = "AttributeError"
    /\ auth.outcome = check_token([method |-> "GET", path |-> "/status/reset",
                                  header |-> "secret"])
    /\ check_token_with("other", [method |-> "GET", path |-> auth.path,
                                  header |-> auth.header]) = "HTTPUnauthorized"
    /\ \A p \in AllowListed : is_unprotected_path(p)

\* C16: no request changes the lifecycle state: a request through the
\* middlewares, and each route handler, leaves alive, ready and self.site as
\* they were, and every site listening or not as it was; a step that changes
\* any of them is a step of start, stop or notify_fatal_error.
C16_RequestsLeaveLifecycle ==
    [][(app' # app \/ site' # site \/ listening' # listening \/ earlier' # earlier
            \/ open' # open) =>
           /\ ~(request \/ liveliness_call \/ readiness_call \/ redirect_call
                    \/ status_reset_call)
           /\ (start_begin \/ start_site_ok \/ start_stale_ok \/ start_stale_oserror
                   \/ stop_begin \/ stop_site_done \/ stop_stale_done
                   \/ notify_fatal_error)]_vars

\* A request answered 503 by the chain while the close of the site is
\* pending, with the flags and the site as stop() left them.
C16_Witness ==
    /\ last = "stop_called"
    /\ app.alive /\ ~app.ready
    /\ site = "listening"
    /\ listening
    /\ auth.method = "GET"
    /\ auth.path = "/"
    /\ resp.handler = "ready_middleware"
    /\ resp.status = 503

\* C17 as stated: stop() on an instance that was never started (self.app and
\* self.site still None) raises no error and changes nothing.
C17_StopUnstartedNoOp ==
    (app = NoApp /\ site = None
        /\ last \in {"stop_called", "stop_done", "stop_again", "stop_AttributeError"})
      => last \in {"stop_done", "stop_again"}

====
